---- MODULE Spec2Model ----
(***************************************************************************)
(* NGX oracle keeper: the update cycle of NGXOracleKeeper.update_prices    *)
(* (keeper/ngx_oracle_keeper.py) and the batch submission of               *)
(* OracleContract.batch_update_prices (keeper/blockchain_interface.py),    *)
(* and, in SpecRun, the process around them: Config.validate, the          *)
(* construction of the keeper, run_once, run_forever, the interrupt, and   *)
(* the chain as the keeper's account sees it (nonce, pending transaction, *)
(* committed prices).                                                      *)
(*                                                                         *)
(* Prices are whole currency units and the change threshold is in          *)
(* hundredths of a percent, so that 50 is the default 0.5 %.  On the       *)
(* values of Prices and Thresholds the float expression of the source,     *)
(* abs((new - old) / old * 100) >= MIN_PRICE_CHANGE_PERCENT, and the       *)
(* integer expression used here decide alike.                              *)
(***************************************************************************)
EXTENDS Integers, Sequences, FiniteSets, TLC

\* ------------------------------------------------------------ bounds
\* longest list of observations the collector returns in one cycle
MaxObs == 2
\* number of update cycles run
MaxCycles == 2
\* SpecBatch: longest candidate list, largest Config.BATCH_SIZE
MaxCands == 4
MaxBatchSize == 3
\* SpecGas: largest item count the gas estimate is applied to
MaxGasItems == 60

\* ------------------------------------------------------------ domains
Symbols == {"A", "B"}
Prices == {0, 200, 201}
\* what the collector can observe: A at every price, B at one price
Observations == ({"A"} \X Prices) \cup {<<"B", 200>>}
\* Config.BATCH_SIZE
BatchSizes == {1, 2}
\* MIN_PRICE_CHANGE_PERCENT in hundredths of a percent: 0 % and the default 0.5 %
Thresholds == {0, 50}
\* network gas price in Gwei: at the ceiling and above it
GasPrices == {50, 60}
\* the symbols of the mock fallback, in the order the keeper lists them
MockSymbols == <<"A", "B">>

\* ------------------------------------------------------------ program constants
MAX_GAS_PRICE_GWEI == 50
base_gas == 200000
gas_per_stock == 150000
max_gas == 8000000

VARIABLES
    batch_size,        \* Config.BATCH_SIZE
    min_change,        \* Config.MIN_PRICE_CHANGE_PERCENT (hundredths of a percent)
    last_prices,       \* self.last_prices: symbol -> last published price
    stats,             \* self.stats counters
    pc,                \* position of the keeper: "idle" | "filtered" | "submitting"
    all_stocks,        \* observations of the current cycle
    stocks_to_update,  \* candidates of the current cycle
    total_batches,     \* total_batches of the current cycle
    i,                 \* loop index of the batch loop (0-based, as in the source)
    ret,               \* what the last update_prices call returned
    cycles,            \* update_prices calls started
    pre_prices,        \* last_prices as it was when the current cycle started
    calls,             \* batches passed to batch_update_prices in this cycle, with the result
    last_call,         \* the last batch_update_prices call: how it ended, the transaction it built
    gas_n,             \* SpecGas: the item counts the gas estimate is applied to
    gas_out,           \* SpecGas: the gas limits computed for gas_n
    cfg,               \* the settings Config reads from the environment, the ABI file
    once,              \* sys.argv[1] == "--once"
    exit_status,       \* "running", or how the process ended
    contract,          \* the OracleContract has been constructed
    in_flight,         \* batch numbers sent to the chain whose result the keeper does not know yet
    used_mock,         \* the collector returned nothing in this cycle and mock data is used
    tx_gas_price,      \* 'gasPrice' of the transaction built in the current call (0: none built)
    tx_nonce,          \* 'nonce' of the transaction built in the current call
    chain,             \* the chain as it concerns the keeper's account: prices committed,
                       \* transactions mined, the transaction still pending after a timeout
    sleeps             \* inter-batch delays taken in the current cycle

vars == <<batch_size, min_change, last_prices, stats, pc, all_stocks, stocks_to_update,
          total_batches, i, ret, cycles, pre_prices, calls, last_call, gas_n, gas_out,
          cfg, once, exit_status, contract, in_flight, used_mock,
          tx_gas_price, tx_nonce, chain, sleeps>>

\* the transaction being built and the chain it is sent to
net_vars == <<tx_gas_price, tx_nonce, chain>>

\* the state of the process around the update cycle
run_vars == <<cfg, once, exit_status, contract, in_flight, used_mock, net_vars>>

\* ------------------------------------------------------------ helpers
Min(a, b) == IF a <= b THEN a ELSE b

Abs(x) == IF x < 0 THEN -x ELSE x

Range(s) == {s[k] : k \in 1..Len(s)}

SeqsUpTo(S, n) == UNION {[1..k -> S] : k \in 0..n}

EmptyPrices == [s \in {} |-> 0]

NoTx == [sent |-> FALSE, n |-> 0, gas |-> 0]

NoCall == [kind |-> "none", current_gas |-> 0, tx |-> NoTx]

\* ------------------------------------------------------------ should_update_price
\* price_change_pct in hundredths of a percent, rounded down; old_price > 0
PriceChangePct(new_price, old_price) == (Abs(new_price - old_price) * 10000) \div old_price

ShouldUpdatePriceStrict(prices, symbol, new_price) ==
    IF symbol \notin DOMAIN prices THEN TRUE
    ELSE IF prices[symbol] = 0 THEN TRUE
    ELSE PriceChangePct(new_price, prices[symbol]) > min_change

ShouldUpdatePriceZeroOld(prices, symbol, new_price) ==
    IF symbol \notin DOMAIN prices THEN TRUE
    ELSE IF prices[symbol] = 0 THEN new_price # 0
    ELSE PriceChangePct(new_price, prices[symbol]) >= min_change

ShouldUpdatePrice(prices, symbol, new_price) ==
    IF symbol \notin DOMAIN prices THEN TRUE
    ELSE IF prices[symbol] = 0 THEN TRUE
    ELSE PriceChangePct(new_price, prices[symbol]) >= min_change

RECURSIVE FilterStocksReversed(_, _)
FilterStocksReversed(prices, stocks) ==
    IF stocks = <<>> THEN <<>>
    ELSE LET stock == Head(stocks)
             rest == FilterStocksReversed(prices, Tail(stocks))
         IN IF ShouldUpdatePrice(prices, stock[1], stock[2])
            THEN rest \o <<stock>>
            ELSE rest

\* the filter loop of update_prices: the observations that need updating, in order
RECURSIVE FilterStocks(_, _)
FilterStocks(prices, stocks) ==
    IF stocks = <<>> THEN <<>>
    ELSE LET stock == Head(stocks)
             rest == FilterStocks(prices, Tail(stocks))
         IN IF ShouldUpdatePrice(prices, stock[1], stock[2])
            THEN <<stock>> \o rest
            ELSE rest

\* ------------------------------------------------------------ batch_update_prices
GasEstimateUncapped(n) == base_gas + n * gas_per_stock

\* gas_estimate = min(base_gas + len(symbols) * gas_per_stock, max_gas)
GasEstimate(n) == Min(base_gas + n * gas_per_stock, max_gas)

GasTooHighOrEqual(current_gas) == current_gas >= MAX_GAS_PRICE_GWEI

\* if current_gas > max_gas_price_gwei: skip
GasTooHigh(current_gas) == current_gas > MAX_GAS_PRICE_GWEI

\* the transaction built for a batch of n items
BuildTx(n) == [sent |-> TRUE, n |-> n, gas |-> GasEstimate(n)]

\* The ways one call of batch_update_prices can end.
\*   empty       no pairs given                                             -> None
\*   rpc_error   reading the gas price or the nonce, or building, raised   -> None
\*   gas_gate    current gas price above the ceiling                        -> None
\*   send_error  signing or sending raised, nothing was sent                -> None
\*   timeout     no receipt within the wait                                 -> None
\*   reverted    receipt with status 0                                      -> None
\*   log_error   receipt with status 1, then the gas price read for the
\*               cost log raised                                            -> None
\*   success     receipt with status 1                                      -> receipt
BatchUpdatePrices(batch) ==
    IF batch = <<>> THEN {[kind |-> "empty", current_gas |-> 0, tx |-> NoTx]}
    ELSE
    {[kind |-> "rpc_error", current_gas |-> 0, tx |-> NoTx]}
    \cup {[kind |-> "gas_gate", current_gas |-> g, tx |-> NoTx] :
            g \in {x \in GasPrices : GasTooHigh(x)}}
    \cup {[kind |-> "send_error", current_gas |-> g,
           tx |-> [BuildTx(Len(batch)) EXCEPT !.sent = FALSE]] :
            g \in {x \in GasPrices : ~GasTooHigh(x)}}
    \cup {[kind |-> k, current_gas |-> g, tx |-> BuildTx(Len(batch))] :
            k \in {"timeout", "reverted", "log_error", "success"},
            g \in {x \in GasPrices : ~GasTooHigh(x)}}

ReceiptIgnoringStatus(call) == call.kind \in {"success", "reverted"}

\* what batch_update_prices returns, as update_prices tests it: a receipt (TRUE) or None
Receipt(call) == call.kind = "success"

\* ------------------------------------------------------------ update_prices
BatchDropLast(cands, idx, size) == SubSeq(cands, idx + 1, Min(idx + size, Len(cands) - 1))

\* stocks_to_update[i:i+batch_size]
Batch(cands, idx, size) == SubSeq(cands, idx + 1, Min(idx + size, Len(cands)))

TotalBatchesFloor(n, size) == n \div size

\* (len(stocks_to_update) + batch_size - 1) // batch_size
TotalBatches(n, size) == (n + size - 1) \div size

RecordPricesOnlyBatch(prices, batch) ==
    [s \in {batch[k][1] : k \in 1..Len(batch)} |->
        batch[CHOOSE k \in 1..Len(batch) :
                 batch[k][1] = s /\ \A j \in 1..Len(batch) : batch[j][1] = s => j <= k][2]]

\* for symbol, price in batch: self.last_prices[symbol] = price
RECURSIVE RecordPrices(_, _)
RecordPrices(prices, batch) ==
    IF batch = <<>> THEN prices
    ELSE LET symbol == Head(batch)[1]
             price == Head(batch)[2]
             next == [s \in DOMAIN prices \cup {symbol} |->
                        IF s = symbol THEN price ELSE prices[s]]
         IN RecordPrices(next, Tail(batch))

PricesAfterBatchAlways(prices, batch, receipt) == RecordPrices(prices, batch)

\* if receipt: record the prices of the batch; else: nothing
PricesAfterBatch(prices, batch, receipt) ==
    IF receipt THEN RecordPrices(prices, batch) ELSE prices

StatsAfterBatchCountOne(st, batch, receipt) ==
    IF receipt
    THEN [st EXCEPT !.successful_updates = @ + 1, !.total_stocks_updated = @ + 1]
    ELSE [st EXCEPT !.failed_updates = @ + 1]

\* if receipt: successful_updates += 1, total_stocks_updated += len(batch);
\* else: failed_updates += 1
StatsAfterBatch(st, batch, receipt) ==
    IF receipt
    THEN [st EXCEPT !.successful_updates = @ + 1, !.total_stocks_updated = @ + Len(batch)]
    ELSE [st EXCEPT !.failed_updates = @ + 1]

EmptyCycleResultFalse == "false"

\* the value of the early return when nothing needs updating
EmptyCycleResult == "true"

ObsLists == SeqsUpTo(Observations, MaxObs)

\* [self.fetcher.mock.get_stock_price(s) for s in mock_symbols]: positive prices
MockLists ==
    {[k \in 1..Len(MockSymbols) |-> <<MockSymbols[k], f[k]>>] :
        f \in [1..Len(MockSymbols) -> Prices \ {0}]} \cap SeqsUpTo(Observations, Len(MockSymbols))

DelayAfterEveryBatch(idx, size, n) == TRUE

\* if i + batch_size < len(stocks_to_update): time.sleep(2)
DelayAfter(idx, size, n) == idx + size < n

StocksWithoutFallback(fetched) == {fetched}

\* if not all_stocks: the mock prices of mock_symbols; else what was fetched
StocksOrMock(fetched) == IF fetched = <<>> THEN MockLists ELSE {fetched}

\* ------------------------------------------------------------ Config
\* a required setting as os.getenv reads it: not in the environment (None), the
\* empty string, or a value
SettingValues == {"unset", "empty", "set"}

Configs == [RPC_URL : SettingValues, PRIVATE_KEY : SettingValues,
            CONTRACT_ADDRESS : SettingValues, abi_exists : BOOLEAN]

ValidConfig == [RPC_URL |-> "set", PRIVATE_KEY |-> "set", CONTRACT_ADDRESS |-> "set",
                abi_exists |-> TRUE]

\* `not value` of a setting: None and '' are both false values
NotSet(value) == value \in {"unset", "empty"}

ValidateErrorsNoAddress(c) ==
    {e \in {"RPC_URL", "PRIVATE_KEY"} : NotSet(c[e])}
    \cup (IF c.abi_exists THEN {} ELSE {"CONTRACT_ABI_PATH"})

\* Config.validate: the errors it collects; it raises ValueError when there is one
ValidateErrors(c) ==
    {e \in {"RPC_URL", "PRIVATE_KEY", "CONTRACT_ADDRESS"} : NotSet(c[e])}
    \cup (IF c.abi_exists THEN {} ELSE {"CONTRACT_ABI_PATH"})

\* ------------------------------------------------------------ the chain
NoPending == [nonce |-> -1, items |-> <<>>]

\* no transaction of the keeper's account yet
EmptyChain == [prices |-> EmptyPrices, count |-> 0, pending |-> NoPending]

\* w3.eth.get_transaction_count(self.address): the transactions of the account
\* that are in the latest block; a pending transaction is not counted
TransactionCount(c) == c.count

\* The chain after a call of batch_update_prices for the batch: nothing changes
\* when no transaction was sent; after a receipt timeout the transaction is
\* pending; otherwise it was mined and has used its nonce, a pending transaction
\* with the same nonce is gone, and with status 1 its prices are committed.
ChainAfterCall(c, call, nonce, batch) ==
    IF ~call.tx.sent THEN c
    ELSE IF call.kind = "timeout"
    THEN [c EXCEPT !.pending = [nonce |-> nonce, items |-> batch]]
    ELSE [prices |-> IF call.kind = "reverted" THEN c.prices
                     ELSE RecordPrices(c.prices, batch),
          count |-> c.count + 1,
          pending |-> IF c.pending.nonce = nonce THEN NoPending ELSE c.pending]

\* the process state of a keeper that was constructed and runs its loop
KeeperConstructed ==
    /\ cfg = ValidConfig
    /\ once = FALSE
    /\ exit_status = "running"
    /\ contract = "built"
    /\ in_flight = {}
    /\ used_mock = FALSE
    /\ tx_gas_price = 0
    /\ tx_nonce = 0
    /\ chain = EmptyChain
    /\ sleeps = 0

Init ==
    /\ batch_size \in BatchSizes
    /\ min_change \in Thresholds
    /\ last_prices = EmptyPrices
    /\ stats = [total_updates |-> 0, successful_updates |-> 0,
                failed_updates |-> 0, total_stocks_updated |-> 0]
    /\ pc = "idle"
    /\ all_stocks = <<>>
    /\ stocks_to_update = <<>>
    /\ total_batches = 0
    /\ i = 0
    /\ ret = "none"
    /\ cycles = 0
    /\ pre_prices = EmptyPrices
    /\ calls = <<>>
    /\ last_call = NoCall
    /\ gas_n = <<>>
    /\ gas_out = <<>>
    /\ KeeperConstructed

\* update_prices, steps 1 and 2: fetch, fall back to mock data when nothing was
\* fetched, filter the stocks that need updating
FetchAndFilter ==
    /\ pc = "idle"
    /\ cycles < MaxCycles
    /\ \E fetched \in ObsLists :
       \E stocks \in StocksOrMock(fetched) :
          /\ all_stocks' = stocks
          /\ stocks_to_update' = FilterStocks(last_prices, stocks)
    /\ pc' = "filtered"
    /\ ret' = "none"
    /\ cycles' = cycles + 1
    /\ pre_prices' = last_prices
    /\ UNCHANGED <<batch_size, min_change, last_prices, stats, total_batches, i, calls,
                   last_call, gas_n, gas_out,
                   run_vars, sleeps>>

\* if not stocks_to_update: return True
ReturnUpToDate ==
    /\ pc = "filtered"
    /\ stocks_to_update = <<>>
    /\ ret' = EmptyCycleResult
    /\ pc' = "idle"
    /\ all_stocks' = <<>>
    /\ pre_prices' = EmptyPrices
    /\ UNCHANGED <<batch_size, min_change, last_prices, stats, stocks_to_update,
                   total_batches, i, cycles, calls, last_call, gas_n, gas_out,
                   run_vars, sleeps>>

\* step 3, before the loop: batch_size, total_batches
StartBatches ==
    /\ pc = "filtered"
    /\ stocks_to_update # <<>>
    /\ batch_size # 0
    /\ total_batches' = TotalBatches(Len(stocks_to_update), batch_size)
    /\ i' = 0
    /\ pc' = "submitting"
    /\ UNCHANGED <<batch_size, min_change, last_prices, stats, all_stocks, stocks_to_update,
                   ret, cycles, pre_prices, calls, last_call, gas_n, gas_out,
                   run_vars, sleeps>>

\* one iteration of the batch loop
SubmitBatch ==
    /\ pc = "submitting"
    /\ i < Len(stocks_to_update)
    /\ LET batch == Batch(stocks_to_update, i, batch_size)
       IN \E call \in BatchUpdatePrices(batch) :
            /\ last_call' = call
            /\ calls' = Append(calls, [items |-> batch, receipt |-> Receipt(call)])
            /\ last_prices' = PricesAfterBatch(last_prices, batch, Receipt(call))
            /\ stats' = StatsAfterBatch(stats, batch, Receipt(call))
    /\ sleeps' = IF DelayAfter(i, batch_size, Len(stocks_to_update)) THEN sleeps + 1 ELSE sleeps
    /\ i' = i + batch_size
    /\ UNCHANGED <<batch_size, min_change, pc, all_stocks, stocks_to_update, total_batches,
                   ret, cycles, pre_prices, gas_n, gas_out,
                   run_vars>>

\* after the batch loop: count the cycle and return True; the locals of the call end
FinishCycle ==
    /\ pc = "submitting"
    /\ i >= Len(stocks_to_update)
    /\ stats' = [stats EXCEPT !.total_updates = @ + 1]
    /\ ret' = "true"
    /\ pc' = "idle"
    /\ all_stocks' = <<>>
    /\ stocks_to_update' = <<>>
    /\ total_batches' = 0
    /\ i' = 0
    /\ pre_prices' = EmptyPrices
    /\ calls' = <<>>
    /\ last_call' = NoCall
    /\ sleeps' = 0
    /\ UNCHANGED <<batch_size, min_change, last_prices, cycles, gas_n, gas_out,
                   run_vars>>

Next == FetchAndFilter \/ ReturnUpToDate \/ StartBatches \/ SubmitBatch \/ FinishCycle

Spec == Init /\ [][Next]_vars

\* ------------------------------------------------------------ SpecBatch
\* The batch loop on longer candidate lists and larger batch sizes: the keeper
\* after the filter of its first cycle, when last_prices is empty and every
\* observation is a candidate.
BatchItems == {<<"A", 200>>, <<"B", 200>>}

InitBatch ==
    /\ batch_size \in 1..MaxBatchSize
    /\ min_change = 50
    /\ last_prices = EmptyPrices
    /\ stats = [total_updates |-> 0, successful_updates |-> 0,
                failed_updates |-> 0, total_stocks_updated |-> 0]
    /\ pc = "filtered"
    /\ all_stocks \in SeqsUpTo(BatchItems, MaxCands) \ {<<>>}
    /\ stocks_to_update = FilterStocks(last_prices, all_stocks)
    /\ total_batches = 0
    /\ i = 0
    /\ ret = "none"
    /\ cycles = 1
    /\ pre_prices = EmptyPrices
    /\ calls = <<>>
    /\ last_call = NoCall
    /\ gas_n = <<>>
    /\ gas_out = <<>>
    /\ KeeperConstructed

NextBatch == StartBatches \/ SubmitBatch \/ FinishCycle

SpecBatch == InitBatch /\ [][NextBatch]_vars

\* ------------------------------------------------------------ SpecGas
\* The gas limit of the transaction batch_update_prices builds, for item counts
\* up to MaxGasItems, two at a time.
InitGas ==
    /\ batch_size = 1
    /\ min_change = 50
    /\ last_prices = EmptyPrices
    /\ stats = [total_updates |-> 0, successful_updates |-> 0,
                failed_updates |-> 0, total_stocks_updated |-> 0]
    /\ pc = "gas"
    /\ all_stocks = <<>>
    /\ stocks_to_update = <<>>
    /\ total_batches = 0
    /\ i = 0
    /\ ret = "none"
    /\ cycles = 0
    /\ pre_prices = EmptyPrices
    /\ calls = <<>>
    /\ last_call = NoCall
    /\ gas_n \in {<<n1, n2>> : n1 \in 1..MaxGasItems, n2 \in 1..MaxGasItems}
    /\ gas_out = <<>>
    /\ KeeperConstructed

BuildGas ==
    /\ pc = "gas"
    /\ gas_out = <<>>
    /\ gas_out' = <<BuildTx(gas_n[1]), BuildTx(gas_n[2])>>
    /\ UNCHANGED <<batch_size, min_change, last_prices, stats, pc, all_stocks,
                   stocks_to_update, total_batches, i, ret, cycles, pre_prices, calls,
                   last_call, gas_n,
                   run_vars, sleeps>>

NextGas == BuildGas

SpecGas == InitGas /\ [][NextGas]_vars

\* ------------------------------------------------------------ SpecRepeat
\* The cycles of Spec, and the collector returning in the next cycle what it
\* returned in this one: update_prices returns True after the batch loop and is
\* called again, the fetch gives the same observations, the filter runs on them.
RepeatCycle ==
    /\ pc = "submitting"
    /\ i >= Len(stocks_to_update)
    /\ cycles < MaxCycles
    /\ stats' = [stats EXCEPT !.total_updates = @ + 1]
    /\ all_stocks' = all_stocks
    /\ stocks_to_update' = FilterStocks(last_prices, all_stocks)
    /\ pc' = "filtered"
    /\ ret' = "none"
    /\ cycles' = cycles + 1
    /\ pre_prices' = last_prices
    /\ total_batches' = 0
    /\ i' = 0
    /\ calls' = <<>>
    /\ last_call' = NoCall
    /\ sleeps' = 0
    /\ UNCHANGED <<batch_size, min_change, last_prices, gas_n, gas_out, run_vars>>

NextRepeat ==
    \/ FetchAndFilter
    \/ ReturnUpToDate
    \/ StartBatches
    \/ SubmitBatch
    \/ FinishCycle
    \/ RepeatCycle

SpecRepeat == Init /\ [][NextRepeat]_vars

\* ------------------------------------------------------------ SpecRun
\* The process from main to its exit: the construction of the keeper, run_once
\* or run_forever around update_prices, the call of batch_update_prices in two
\* steps (the call is made, the call has returned), and the user's interrupt.
\*   pc:  "start" | "idle" | "filtered" | "submitting" | "in_call" | "sleeping" | "exited"
\*   exit_status:  "running"
\*               | "config_error"  sys.exit(1) of __init__
\*               | "done"          run_once returned
\*               | "stopped"       sys.exit(0) after KeyboardInterrupt
\*               | "fatal"         sys.exit(1) of run_forever
\*               | "crash"         an exception nobody caught
\* Config.BATCH_SIZE, 0 included: int(os.getenv('BATCH_SIZE', '20')) accepts it
RunBatchSizes == {0, 1, 2}

RunItems == {<<"A", 200>>, <<"B", 200>>}

RunLists == SeqsUpTo(RunItems, MaxObs)

InitRun ==
    /\ batch_size \in RunBatchSizes
    /\ min_change = 50
    /\ last_prices = EmptyPrices
    /\ stats = [total_updates |-> 0, successful_updates |-> 0,
                failed_updates |-> 0, total_stocks_updated |-> 0]
    /\ pc = "start"
    /\ all_stocks = <<>>
    /\ stocks_to_update = <<>>
    /\ total_batches = 0
    /\ i = 0
    /\ ret = "none"
    /\ cycles = 0
    /\ pre_prices = EmptyPrices
    /\ calls = <<>>
    /\ last_call = NoCall
    /\ gas_n = <<>>
    /\ gas_out = <<>>
    /\ cfg \in Configs
    /\ once \in BOOLEAN
    /\ exit_status = "running"
    /\ contract = "none"
    /\ in_flight = {}
    /\ used_mock = FALSE
    /\ tx_gas_price = 0
    /\ tx_nonce = 0
    /\ chain = EmptyChain
    /\ sleeps = 0

\* NGXOracleKeeper.__init__: validate the configuration, construct the
\* OracleContract (it raises when the node is not connected or the ABI does not
\* load), read the network info (an empty dict when the read failed: KeyError)
Construct ==
    /\ pc = "start"
    /\ IF ValidateErrors(cfg) # {}
       THEN /\ exit_status' = "config_error"
            /\ pc' = "exited"
            /\ contract' = contract
       ELSE \E outcome \in {"ok", "connect_error", "info_error"} :
            /\ contract' = IF outcome = "connect_error" THEN "failed" ELSE "built"
            /\ pc' = IF outcome = "ok" THEN "idle" ELSE "exited"
            /\ exit_status' = IF outcome = "ok" THEN "running" ELSE "crash"
    /\ UNCHANGED <<batch_size, min_change, last_prices, stats, all_stocks, stocks_to_update,
                   total_batches, i, ret, cycles, pre_prices, calls, last_call, gas_n,
                   gas_out, cfg, once, in_flight, used_mock, net_vars,
                   sleeps>>

\* update_prices, steps 1 and 2, called by run_once or by the loop of run_forever
RunFetch ==
    /\ pc = "idle"
    /\ ret = "none"
    /\ cycles < MaxCycles
    /\ \E fetched \in RunLists :
       \E stocks \in StocksOrMock(fetched) :
          /\ all_stocks' = stocks
          /\ stocks_to_update' = FilterStocks(last_prices, stocks)
          /\ used_mock' = (fetched = <<>>)
    /\ pc' = "filtered"
    /\ cycles' = cycles + 1
    /\ pre_prices' = last_prices
    /\ UNCHANGED <<batch_size, min_change, last_prices, stats, total_batches, i, ret, calls,
                   last_call, gas_n, gas_out, cfg, once, exit_status, contract, in_flight, net_vars,
                   sleeps>>

\* except Exception of update_prices: failed_updates += 1, return False
CycleException ==
    /\ stats' = [stats EXCEPT !.failed_updates = @ + 1]
    /\ ret' = "false"
    /\ pc' = "idle"
    /\ all_stocks' = <<>>
    /\ stocks_to_update' = <<>>
    /\ total_batches' = 0
    /\ i' = 0
    /\ pre_prices' = EmptyPrices
    /\ calls' = <<>>
    /\ last_call' = NoCall
    /\ sleeps' = 0

\* step 3 with BATCH_SIZE = 0: the division of total_batches raises ZeroDivisionError
StartBatchesRaises ==
    /\ pc = "filtered"
    /\ stocks_to_update # <<>>
    /\ batch_size = 0
    /\ CycleException
    /\ UNCHANGED <<batch_size, min_change, last_prices, cycles, gas_n, gas_out, run_vars>>

RaisesOnRpcError(call) == call.kind = "rpc_error"

\* batch_update_prices raises to update_prices: never, its except Exception and
\* that of _send_transaction turn every error of the chain client into None
Raises(call) == FALSE

InFlightNotAwaited(flight, n) == flight

\* wait_for_transaction_receipt blocks until the receipt or the timeout: when
\* the call returns, submission n is no longer in flight
InFlightAfterReturn(flight, n) == flight \ {n}

\* self.contract.batch_update_prices(batch, ...) is called: the gas price is read
\* for the gate, and unless the call ends before, the nonce is read, the
\* transaction is built with the gas price read again for 'gasPrice', and sent
CallBatchUpdate ==
    /\ pc = "submitting"
    /\ i < Len(stocks_to_update)
    /\ LET batch == Batch(stocks_to_update, i, batch_size)
       IN \E call \in BatchUpdatePrices(batch) :
            /\ last_call' = call
            /\ in_flight' = IF call.tx.sent THEN in_flight \cup {Len(calls) + 1} ELSE in_flight
            /\ IF call.tx.n > 0
               THEN /\ tx_nonce' = TransactionCount(chain)
                    /\ tx_gas_price' \in GasPrices
               ELSE /\ tx_nonce' = 0
                    /\ tx_gas_price' = 0
            /\ chain' = ChainAfterCall(chain, call, tx_nonce', batch)
    /\ pc' = "in_call"
    /\ UNCHANGED <<batch_size, min_change, last_prices, stats, all_stocks, stocks_to_update,
                   total_batches, i, ret, cycles, pre_prices, calls, gas_n, gas_out,
                   cfg, once, exit_status, contract, used_mock, sleeps>>

\* a transaction left pending by a receipt timeout is mined afterwards
MinePending ==
    /\ pc \in {"idle", "filtered", "submitting", "sleeping"}
    /\ chain.pending # NoPending
    /\ chain' = [prices |-> RecordPrices(chain.prices, chain.pending.items),
                 count |-> chain.count + 1,
                 pending |-> NoPending]
    /\ UNCHANGED <<batch_size, min_change, last_prices, stats, pc, all_stocks,
                   stocks_to_update, total_batches, i, ret, cycles, pre_prices, calls,
                   last_call, gas_n, gas_out, cfg, once, exit_status, contract, in_flight,
                   used_mock, tx_gas_price, tx_nonce, sleeps>>

\* the call has returned: the rest of the iteration of the batch loop
RecordBatch ==
    /\ pc = "in_call"
    /\ in_flight' = InFlightAfterReturn(in_flight, Len(calls) + 1)
    /\ IF Raises(last_call)
       THEN /\ CycleException
            /\ UNCHANGED <<last_prices>>
       ELSE LET batch == Batch(stocks_to_update, i, batch_size)
            IN /\ calls' = Append(calls, [items |-> batch, receipt |-> Receipt(last_call)])
               /\ last_prices' = PricesAfterBatch(last_prices, batch, Receipt(last_call))
               /\ stats' = StatsAfterBatch(stats, batch, Receipt(last_call))
               /\ sleeps' = IF DelayAfter(i, batch_size, Len(stocks_to_update))
                            THEN sleeps + 1 ELSE sleeps
               /\ i' = i + batch_size
               /\ pc' = "submitting"
               /\ UNCHANGED <<all_stocks, stocks_to_update, total_batches, ret, pre_prices,
                              last_call>>
    /\ tx_gas_price' = 0
    /\ tx_nonce' = 0
    /\ UNCHANGED <<batch_size, min_change, cycles, gas_n, gas_out,
                   cfg, once, exit_status, contract, used_mock, chain>>

\* print_stats raises KeyError when get_network_info returned the empty dict of
\* its except branch
PrintStatsRaises(info_ok) == ~info_ok

\* run_once after update_prices: print_stats, then main returns
OnceStats ==
    /\ pc = "idle"
    /\ ret # "none"
    /\ once
    /\ \E info_ok \in BOOLEAN :
         exit_status' = IF PrintStatsRaises(info_ok) THEN "crash" ELSE "done"
    /\ pc' = "exited"
    /\ used_mock' = FALSE
    /\ UNCHANGED <<batch_size, min_change, last_prices, stats, all_stocks, stocks_to_update,
                   total_batches, i, ret, cycles, pre_prices, calls, last_call, gas_n,
                   gas_out, cfg, once, contract, in_flight, net_vars,
                   sleeps>>

\* if self.stats['total_updates'] % 10 == 0
StatsDue(total_updates) == total_updates % 10 = 0

\* run_forever after update_prices: the statistics every tenth update, then the
\* sleep; an exception of print_stats is the fatal error of run_forever
LoopStats ==
    /\ pc = "idle"
    /\ ret # "none"
    /\ ~once
    /\ \E info_ok \in BOOLEAN :
         IF StatsDue(stats.total_updates) /\ PrintStatsRaises(info_ok)
         THEN /\ exit_status' = "fatal"
              /\ pc' = "exited"
         ELSE /\ exit_status' = exit_status
              /\ pc' = "sleeping"
    /\ used_mock' = FALSE
    /\ UNCHANGED <<batch_size, min_change, last_prices, stats, all_stocks, stocks_to_update,
                   total_batches, i, ret, cycles, pre_prices, calls, last_call, gas_n,
                   gas_out, cfg, once, contract, in_flight, net_vars,
                   sleeps>>

\* time.sleep(UPDATE_INTERVAL_MINUTES * 60) is over: the next iteration of while True
Wake ==
    /\ pc = "sleeping"
    /\ pc' = "idle"
    /\ ret' = "none"
    /\ UNCHANGED <<batch_size, min_change, last_prices, stats, all_stocks, stocks_to_update,
                   total_batches, i, cycles, pre_prices, calls, last_call, gas_n, gas_out,
                   run_vars, sleeps>>

\* KeyboardInterrupt, wherever the keeper is: no except Exception catches it; in
\* run_forever the handler prints the statistics and exits with 0, in run_once
\* nobody catches it
Interrupt ==
    /\ pc \in {"idle", "filtered", "submitting", "in_call", "sleeping"}
    /\ \E info_ok \in BOOLEAN :
         exit_status' = IF once \/ PrintStatsRaises(info_ok) THEN "crash" ELSE "stopped"
    /\ pc' = "exited"
    /\ UNCHANGED <<batch_size, min_change, last_prices, stats, all_stocks, stocks_to_update,
                   total_batches, i, ret, cycles, pre_prices, calls, last_call, gas_n,
                   gas_out, cfg, once, contract, in_flight, used_mock, net_vars,
                   sleeps>>

NextRun ==
    \/ Construct
    \/ RunFetch
    \/ ReturnUpToDate
    \/ StartBatches
    \/ StartBatchesRaises
    \/ CallBatchUpdate
    \/ RecordBatch
    \/ MinePending
    \/ FinishCycle
    \/ OnceStats
    \/ LoopStats
    \/ Wake
    \/ Interrupt

SpecRun == InitRun /\ [][NextRun]_vars

\* ------------------------------------------------------------ properties
\* a step that is one iteration of the batch loop: one more call of batch_update_prices
BatchStep == Len(calls') = Len(calls) + 1

SymbolsOf(items) == {items[k][1] : k \in 1..Len(items)}

\* the price of the last item of the batch that names the symbol
LastPriceIn(items, symbol) ==
    LET ks == {k \in 1..Len(items) : items[k][1] = symbol}
    IN items[CHOOSE k \in ks : \A j \in ks : j <= k][2]

\* the symbol has the same price, or the same absence, in both memories
SamePrice(p, q, symbol) ==
    /\ symbol \in DOMAIN p <=> symbol \in DOMAIN q
    /\ symbol \in DOMAIN p => p[symbol] = q[symbol]

FailedSymbols == UNION {SymbolsOf(calls[k].items) : k \in {j \in 1..Len(calls) : ~calls[j].receipt}}

SucceededSymbols == UNION {SymbolsOf(calls[k].items) : k \in {j \in 1..Len(calls) : calls[j].receipt}}

LoopDone == pc = "submitting" /\ i >= Len(stocks_to_update)

RECURSIVE Flatten(_)
Flatten(cs) == IF cs = <<>> THEN <<>> ELSE Head(cs).items \o Flatten(Tail(cs))

\* C1: in every iteration of the batch loop last_prices is written for the symbols
\* of the batch if and only if batch_update_prices returned a success receipt; when
\* it returned None, however the call ended, last_prices is unchanged; and
\* last_prices changes in no other step.
C1_WrittenIffReceipt ==
    [][/\ BatchStep =>
            LET items == calls'[Len(calls')].items
            IN /\ last_call'.kind = "success" =>
                    /\ SymbolsOf(items) \subseteq DOMAIN last_prices'
                    /\ \A s \in SymbolsOf(items) :
                          \E k \in 1..Len(items) :
                             items[k][1] = s /\ last_prices'[s] = items[k][2]
                    /\ \A s \in Symbols \ SymbolsOf(items) :
                          SamePrice(last_prices', last_prices, s)
               /\ last_call'.kind # "success" => last_prices' = last_prices
       /\ last_prices' # last_prices => BatchStep /\ last_call'.kind = "success"
      ]_vars

C1_Witness ==
    /\ Len(calls) = 2
    /\ ~calls[1].receipt
    /\ calls[2].receipt
    /\ last_call.kind = "success"
    /\ pre_prices # last_prices

\* C2 as claimed: at the end of the batch loop every symbol that was in a failed
\* batch of the cycle has the price, or the absence, it had when the cycle started.
C2_FailedSymbolsKeepPrice ==
    LoopDone => \A s \in FailedSymbols : SamePrice(last_prices, pre_prices, s)

\* C2 as amended: at the end of the batch loop every symbol that was in a failed
\* batch and in no successful batch of the cycle has the price, or the absence,
\* it had when the cycle started.
C2_OnlyFailedSymbolsKeepPrice ==
    LoopDone => \A s \in FailedSymbols \ SucceededSymbols :
                    SamePrice(last_prices, pre_prices, s)

C2_Witness ==
    /\ LoopDone
    /\ FailedSymbols \ SucceededSymbols # {}
    /\ SucceededSymbols # {}
    /\ pre_prices # EmptyPrices
    /\ pre_prices # last_prices

\* C3 as claimed: after a confirmed batch last_prices[symbol] is the submitted price
\* for every (symbol, price) of the batch, successful_updates grew by 1,
\* total_stocks_updated by the number of items, and no other counter changed.
C3_EveryItemRecorded ==
    [][(BatchStep /\ last_call'.kind = "success") =>
         LET items == calls'[Len(calls')].items
         IN /\ \A k \in 1..Len(items) :
                  /\ items[k][1] \in DOMAIN last_prices'
                  /\ last_prices'[items[k][1]] = items[k][2]
            /\ stats'.successful_updates = stats.successful_updates + 1
            /\ stats'.total_stocks_updated = stats.total_stocks_updated + Len(items)
            /\ stats'.failed_updates = stats.failed_updates
            /\ stats'.total_updates = stats.total_updates
      ]_vars

\* C3 as amended: after a confirmed batch last_prices[symbol] is, for every symbol
\* of the batch, the price of the last item of the batch that names it,
\* successful_updates grew by 1, total_stocks_updated by the number of items, and no
\* other counter changed.
C3_LastItemRecorded ==
    [][(BatchStep /\ last_call'.kind = "success") =>
         LET items == calls'[Len(calls')].items
         IN /\ \A s \in SymbolsOf(items) :
                  /\ s \in DOMAIN last_prices'
                  /\ last_prices'[s] = LastPriceIn(items, s)
            /\ stats'.successful_updates = stats.successful_updates + 1
            /\ stats'.total_stocks_updated = stats.total_stocks_updated + Len(items)
            /\ stats'.failed_updates = stats.failed_updates
            /\ stats'.total_updates = stats.total_updates
      ]_vars

C3_Witness ==
    /\ last_call.kind = "success"
    /\ Len(calls) = 1
    /\ calls[1].items = <<<<"A", 200>>, <<"A", 201>>>>
    /\ last_prices["A"] = 201
    /\ stats.total_stocks_updated >= 2

\* C4: a batch rejected by the gas gate sends no transaction, leaves last_prices
\* unchanged and does not increment failed_updates.
C4_GasGateNotCountedFailed ==
    [][(BatchStep /\ last_call'.kind = "gas_gate") =>
         /\ ~last_call'.tx.sent
         /\ last_prices' = last_prices
         /\ stats'.failed_updates = stats.failed_updates
      ]_vars

C6_NewOrZeroAlwaysCandidate ==
    pc \in {"filtered", "submitting"} =>
        \A k \in 1..Len(all_stocks) :
            LET symbol == all_stocks[k][1]
            IN (symbol \notin DOMAIN pre_prices \/ pre_prices[symbol] = 0) =>
                 all_stocks[k] \in Range(stocks_to_update)

C6_Witness ==
    /\ pc = "filtered"
    /\ min_change = 50
    /\ "A" \in DOMAIN pre_prices
    /\ pre_prices["A"] = 0
    /\ "B" \notin DOMAIN pre_prices
    /\ all_stocks = <<<<"A", 0>>, <<"B", 200>>>>
    /\ stocks_to_update = all_stocks

\* C7: the items of the batches submitted in a cycle, concatenated in submission
\* order, are a prefix of the candidate sequence while the loop runs and the whole
\* candidate sequence when it ends.
C7_BatchesConcatenateToCandidates ==
    pc = "submitting" =>
        /\ Len(Flatten(calls)) <= Len(stocks_to_update)
        /\ Flatten(calls) = SubSeq(stocks_to_update, 1, Len(Flatten(calls)))
        /\ LoopDone => Flatten(calls) = stocks_to_update

C7_Witness ==
    /\ LoopDone
    /\ batch_size = 2
    /\ Len(stocks_to_update) = 3
    /\ Len(calls) = 2
    /\ stocks_to_update[1] # stocks_to_update[2]

\* C8: every batch passed to the chain client holds between 1 and batch_size
\* items, every batch but the last exactly batch_size, and when the loop ends the
\* number of batches submitted is total_batches, the least k with
\* k * batch_size >= len(candidates).
C8_BatchSizesAndCount ==
    pc = "submitting" =>
        /\ \A k \in 1..Len(calls) :
              /\ Len(calls[k].items) >= 1
              /\ Len(calls[k].items) <= batch_size
              /\ (k < Len(calls) \/ ~LoopDone) => Len(calls[k].items) = batch_size
        /\ LoopDone =>
              /\ Len(calls) = total_batches
              /\ Len(calls) * batch_size >= Len(stocks_to_update)
              /\ (Len(calls) - 1) * batch_size < Len(stocks_to_update)

C8_Witness ==
    /\ LoopDone
    /\ batch_size = 3
    /\ Len(stocks_to_update) = 4
    /\ Len(calls) = 2
    /\ Len(calls[2].items) = 1

\* C9: the gas limit of the transaction built for n items is
\* min(200000 + n * 150000, 8000000): at most the cap, the linear model whenever
\* that is at most the cap, and non-decreasing in n.
C9_GasLimitCapped ==
    gas_out # <<>> =>
        /\ \A k \in {1, 2} :
              LET linear == 200000 + gas_n[k] * 150000
              IN /\ gas_out[k].gas <= 8000000
                 /\ linear <= 8000000 => gas_out[k].gas = linear
                 /\ linear > 8000000 => gas_out[k].gas = 8000000
        /\ gas_n[1] <= gas_n[2] => gas_out[1].gas <= gas_out[2].gas

C9_Witness ==
    /\ gas_out # <<>>
    /\ gas_n = <<20, 53>>
    /\ gas_out[1].gas = 3200000
    /\ gas_out[2].gas = 8000000

\* C10: a cycle whose filter yields no candidate returns True, calls
\* batch_update_prices not once, and leaves last_prices and the successful and
\* failed batch counters unchanged.
C10_EmptyCycleReturnsTrue ==
    [][(pc = "filtered" /\ stocks_to_update = <<>>) =>
         /\ pc' = "idle"
         /\ ret' = "true"
         /\ calls = <<>> /\ calls' = <<>>
         /\ last_call = NoCall /\ last_call' = NoCall
         /\ last_prices' = last_prices
         /\ stats'.successful_updates = stats.successful_updates
         /\ stats'.failed_updates = stats.failed_updates
      ]_vars

C10_Witness ==
    /\ pc = "idle"
    /\ cycles = 2
    /\ ret = "true"
    /\ stats.total_updates = 1
    /\ last_prices # EmptyPrices

\* C11: whenever batch_update_prices has read the gas price for a batch, it ends at
\* the gas gate if and only if the price it read for that batch is above
\* MAX_GAS_PRICE_GWEI; a price equal to the ceiling passes the gate. The price is
\* the one read in this call, so two batches of one cycle can be decided differently.
C11_GateIffAboveCeiling ==
    pc = "in_call" /\ last_call.kind \notin {"empty", "rpc_error"} =>
        /\ last_call.kind = "gas_gate" <=> last_call.current_gas > MAX_GAS_PRICE_GWEI
        /\ last_call.current_gas = MAX_GAS_PRICE_GWEI => last_call.kind # "gas_gate"

\* in one cycle the first batch passed the gate at the ceiling and was mined, the
\* second is rejected at a higher price
C11_Witness ==
    /\ pc = "in_call"
    /\ Len(calls) = 1
    /\ calls[1].receipt
    /\ last_call.kind = "gas_gate"
    /\ last_call.current_gas > MAX_GAS_PRICE_GWEI
    /\ MAX_GAS_PRICE_GWEI \in GasPrices

\* C12: however a call of batch_update_prices ends, it returns into the batch loop:
\* the batch is logged, the index moves to the next batch and the loop goes on; and
\* update_prices leaves the batch loop only when every candidate has been passed to
\* batch_update_prices, in order, and then it returns True. (A step to "exited" is
\* the user's interrupt.)
C12_EveryBatchAttempted ==
    [][/\ pc = "in_call" /\ pc' \notin {"in_call", "exited"} =>
            /\ pc' = "submitting"
            /\ Len(calls') = Len(calls) + 1
            /\ calls'[Len(calls')].items = Batch(stocks_to_update, i, batch_size)
            /\ i' = i + batch_size
            /\ stocks_to_update' = stocks_to_update
       /\ pc = "submitting" /\ pc' = "idle" =>
            /\ Flatten(calls) = stocks_to_update
            /\ ret' = "true"
      ]_vars

\* the first batch of the cycle failed and the second has been sent
C12_Witness ==
    /\ pc = "in_call"
    /\ Len(calls) = 1
    /\ ~calls[1].receipt
    /\ last_call.tx.sent

\* C13 as claimed: an exception raised inside update_prices is caught there and
\* update_prices returns False; and in run_forever, after update_prices returned
\* False, the keeper goes to sleep for the next cycle unless the user interrupts
\* it: the process does not end.
C13_CycleExceptionLoopGoesOn ==
    [][/\ pc = "filtered" /\ stocks_to_update # <<>> /\ batch_size = 0 /\ pc' # "exited" =>
            /\ ret' = "false"
            /\ pc' = "idle"
            /\ exit_status' = "running"
       /\ ~once /\ pc = "idle" /\ ret = "false" /\ pc' # pc
             /\ exit_status' \notin {"stopped", "crash"} =>
            pc' = "sleeping"
      ]_vars

\* C14 as claimed: run_forever never ends with its fatal error: once the keeper is
\* constructed, the loop is left only by the user's interrupt.
C14_LoopNeverExitsOnError ==
    ~once => exit_status # "fatal"

\* C15: once __init__ has validated the configuration, the keeper has ended with
\* the configuration error if and only if RPC_URL, PRIVATE_KEY or CONTRACT_ADDRESS
\* is not set (absent or empty) or the ABI file does not exist; and when it ended
\* so, no OracleContract was constructed, no cycle was started and no transaction
\* was sent.
C15_ConfigErrorIffSettingMissing ==
    pc # "start" =>
        /\ exit_status = "config_error" <=>
              \/ cfg.RPC_URL \in {"unset", "empty"}
              \/ cfg.PRIVATE_KEY \in {"unset", "empty"}
              \/ cfg.CONTRACT_ADDRESS \in {"unset", "empty"}
              \/ ~cfg.abi_exists
        /\ exit_status = "config_error" =>
              /\ pc = "exited"
              /\ contract = "none"
              /\ cycles = 0
              /\ calls = <<>>
              /\ in_flight = {}
              /\ last_call = NoCall

\* the contract address alone is missing and the keeper has aborted
C15_Witness ==
    /\ exit_status = "config_error"
    /\ cfg.RPC_URL = "set"
    /\ cfg.PRIVATE_KEY = "set"
    /\ cfg.CONTRACT_ADDRESS = "unset"
    /\ cfg.abi_exists

\* C16: at most one submission is in flight at any time; batch_update_prices is
\* called for a batch only when no submission is in flight, that is when the call
\* for the batch before has returned with its result; and update_prices is entered
\* only from the idle keeper, with nothing in flight and nothing left of the cycle
\* before.
C16_StrictlySequential ==
    [][/\ Cardinality(in_flight') <= 1
       /\ pc = "submitting" /\ pc' = "in_call" =>
            /\ in_flight = {}
            /\ in_flight' \subseteq {Len(calls) + 1}
       /\ cycles' # cycles =>
            /\ pc = "idle"
            /\ in_flight = {}
            /\ calls = <<>>
            /\ stocks_to_update = <<>>
      ]_vars

\* the second submission of a cycle is in flight, the first has been recorded
C16_Witness ==
    /\ pc = "in_call"
    /\ Len(calls) = 1
    /\ in_flight = {2}
    /\ cycles = 2

\* C17 as claimed: when the keeper has stopped on the user's interrupt, no
\* submission is in flight: every batch that was sent has had its result recorded
\* by the batch loop.
C17_SentBatchNeverAbandoned ==
    exit_status = "stopped" => in_flight = {}

\* C18 as claimed: whenever the keeper is between two cycles, stats['total_updates']
\* is the number of update_prices calls that have returned.
C18_TotalUpdatesCountsCycles ==
    pc = "idle" => stats.total_updates = cycles

\* C19 as claimed: with --once the keeper starts at most one cycle and ends as soon
\* as that cycle has returned; without it, after every cycle the keeper sleeps and
\* then starts the next one, and nothing but the user's interrupt ends it.
C19_OnceOneCycleElseLoop ==
    [][/\ once => cycles' <= 1
       /\ once /\ pc = "idle" /\ ret # "none" /\ pc' # pc => pc' = "exited"
       /\ once /\ exit_status' = "done" => cycles' = 1
       /\ ~once /\ pc = "idle" /\ ret # "none" /\ pc' # pc
             /\ exit_status' \notin {"stopped", "crash"} =>
            pc' = "sleeping"
       /\ ~once /\ pc = "sleeping" /\ pc' \notin {pc, "exited"} => pc' = "idle" /\ ret' = "none"
      ]_vars

\* C20: when the collector returned no observation, the fetch step does not end
\* the cycle and counts no failure: the observations of the cycle are the mock
\* prices of the mock symbols, in their order, the candidates are what the filter
\* keeps of them, and the keeper goes on from the filter as in any other cycle, to
\* the batch loop or to the early return with True.
C20_EmptyFetchFallsBack ==
    [][/\ pc = "idle" /\ pc' = "filtered" /\ used_mock' =>
            /\ Len(all_stocks') = Len(MockSymbols)
            /\ \A k \in 1..Len(MockSymbols) :
                  all_stocks'[k][1] = MockSymbols[k] /\ all_stocks'[k][2] > 0
            /\ stocks_to_update' = FilterStocks(last_prices, all_stocks')
            /\ stats' = stats
            /\ ret' # "false"
            /\ exit_status' = "running"
       /\ pc = "filtered" /\ used_mock /\ batch_size # 0 /\ pc' \notin {"filtered", "exited"} =>
            /\ stats'.failed_updates = stats.failed_updates
            /\ IF stocks_to_update = <<>>
               THEN pc' = "idle" /\ ret' = "true"
               ELSE pc' = "submitting" /\ stocks_to_update' = stocks_to_update
      ]_vars

\* a batch of the fallback observations has been sent and mined
C20_Witness ==
    /\ used_mock
    /\ pc = "in_call"
    /\ last_call.kind = "success"
    /\ Len(stocks_to_update) = Len(MockSymbols)

\* C21 as claimed: stats['failed_updates'] changes only in the step that records a
\* batch whose submission failed (a transport error, a receipt timeout or a
\* status-0 receipt), and every such step adds one to it.
C21_FailedCountsFailedSubmissions ==
    [][LET failed == /\ BatchStep
                     /\ last_call'.kind \in {"rpc_error", "send_error", "timeout", "reverted"}
       IN /\ failed => stats'.failed_updates = stats.failed_updates + 1
          /\ stats'.failed_updates # stats.failed_updates => failed
      ]_vars

\* C22 as claimed: every transaction that is sent carries as 'gasPrice' the gas
\* price the gate read and approved, which is not above MAX_GAS_PRICE_GWEI.
C22_SentGasPriceApproved ==
    pc = "in_call" /\ last_call.tx.sent =>
        /\ tx_gas_price <= MAX_GAS_PRICE_GWEI
        /\ tx_gas_price = last_call.current_gas

\* the step in which a cycle ends and the next one fetches the same observations
RepeatStep == pc = "submitting" /\ pc' = "filtered" /\ all_stocks' = all_stocks

\* C23 as claimed: when every batch of a cycle succeeded and the next cycle fetches
\* the same observations with a threshold above 0, the next cycle has no candidate.
C23_RepublishIdempotent ==
    [][RepeatStep /\ min_change > 0 /\ (\A k \in 1..Len(calls) : calls[k].receipt) =>
            stocks_to_update' = <<>>
      ]_vars

\* C24 as claimed: when a cycle ends and the next one fetches the same
\* observations, every symbol that was in a failed batch of the cycle that ends
\* is a candidate of the next cycle.
C24_FailedSymbolsRetried ==
    [][RepeatStep => FailedSymbols \subseteq SymbolsOf(stocks_to_update')]_vars

\* C24 as amended: when a cycle ends and the next one fetches the same
\* observations, every item of a failed batch whose symbol was in no successful
\* batch of the cycle that ends is a candidate of the next cycle, with the same
\* price; so it is retried cycle after cycle until a batch with its symbol succeeds.
C24_OnlyFailedSymbolsRetried ==
    [][RepeatStep =>
         \A k \in 1..Len(calls) :
            ~calls[k].receipt =>
               \A item \in Range(calls[k].items) :
                  item[1] \notin SucceededSymbols => item \in Range(stocks_to_update')
      ]_vars

\* the second cycle has the candidate of the first again, whose batch failed
C24_Witness ==
    /\ cycles = 2
    /\ pc = "filtered"
    /\ stats.failed_updates > 0
    /\ stats.successful_updates = 0
    /\ stats.total_updates = 1
    /\ stocks_to_update # <<>>
    /\ stocks_to_update = all_stocks

\* C25: in the step that fetches and filters, the candidates are the observations
\* for which should_update_price holds against last_prices as it is before the
\* step, all of them and no other, in the order of the observations; and the step
\* changes neither last_prices nor stats.
C25_FilterIsOrderedSelection ==
    [][pc = "idle" /\ pc' = "filtered" =>
         LET keep == {k \in 1..Len(all_stocks') :
                         ShouldUpdatePrice(last_prices, all_stocks'[k][1], all_stocks'[k][2])}
         IN /\ Len(stocks_to_update') = Cardinality(keep)
            /\ \E f \in [1..Len(stocks_to_update') -> keep] :
                  /\ \A a, b \in 1..Len(stocks_to_update') : a < b => f[a] < f[b]
                  /\ \A j \in 1..Len(stocks_to_update') :
                        stocks_to_update'[j] = all_stocks'[f[j]]
            /\ last_prices' = last_prices
            /\ stats' = stats
      ]_vars

\* with prices in the memory, the first observation was dropped and a later one
\* is the only candidate
C25_Witness ==
    /\ pc = "filtered"
    /\ Len(all_stocks) > Len(stocks_to_update)
    /\ Len(stocks_to_update) = 1
    /\ last_prices # EmptyPrices
    /\ all_stocks[1] # stocks_to_update[1]

\* C26: no step removes a symbol from last_prices, and a symbol enters last_prices
\* only in the step of the batch loop that has the success receipt of a batch
\* containing the symbol.
C26_SymbolsOnlyGrow ==
    [][/\ DOMAIN last_prices \subseteq DOMAIN last_prices'
       /\ \A s \in DOMAIN last_prices' \ DOMAIN last_prices :
             /\ BatchStep
             /\ calls'[Len(calls')].receipt
             /\ last_call'.kind = "success"
             /\ s \in SymbolsOf(calls'[Len(calls')].items)
      ]_vars

\* a second symbol has entered the memory in a cycle after the first
C26_Witness ==
    /\ DOMAIN last_prices = Symbols
    /\ DOMAIN pre_prices # {}
    /\ DOMAIN pre_prices # Symbols
    /\ cycles = 2
    /\ Len(calls) = 1
    /\ calls[1].receipt

\* C27 as claimed: whenever the keeper is between two cycles, last_prices is what
\* the chain has committed of the keeper's transactions: the same symbols with
\* the same prices.
C27_MemoryAgreesWithChain ==
    pc \in {"idle", "sleeping"} => last_prices = chain.prices

\* C28 as claimed: a transaction is never sent with the nonce of a transaction of
\* the keeper that is still pending, nor with a nonce that a mined transaction
\* has used.
C28_NoNonceReuse ==
    [][pc = "submitting" /\ pc' = "in_call" /\ last_call'.tx.sent =>
            /\ tx_nonce' # chain.pending.nonce
            /\ tx_nonce' >= chain.count
      ]_vars

\* C29: every iteration of the batch loop but the last of the cycle ends with one
\* inter-batch delay, whether its batch succeeded or not, and the last ends with
\* none: when the loop is done there was one delay between every two consecutive
\* calls and none after the last.
C29_DelayBetweenBatches ==
    [][BatchStep =>
         /\ sleeps' = IF Len(calls') < total_batches THEN sleeps + 1 ELSE sleeps
         /\ sleeps' = Min(Len(calls'), total_batches - 1)
         /\ i' >= Len(stocks_to_update) => sleeps' = Len(calls') - 1
      ]_vars

\* three batches, the first failed, two delays
C29_Witness ==
    /\ LoopDone
    /\ Len(calls) = 3
    /\ ~calls[1].receipt
    /\ calls[2].receipt
    /\ sleeps = 2
====
